---- MODULE Spec2Model ----
(***************************************************************************)
(* The ESP32-S3 PDM-microphone sketches: src/src/main.cpp holds three      *)
(* sketches (the latency analyser, lines 1-163; the latency estimator,     *)
(* lines 165-321; the plain monitor, lines 323-456) and src/unnamed/       *)
(* part_000 holds the serial streamer.  Each is setup() followed by        *)
(* loop() run forever: i2s_read, gain + clip + stereo copy, i2s_write,     *)
(* throttled latency log.                                                  *)
(*                                                                         *)
(* Numbers.  TLC's integers are 32-bit signed, so a 32-bit unsigned value  *)
(* (uint32_t, unsigned long) is a pair of 16-bit limbs <<low, high>> and   *)
(* the 64-bit microsecond timer behind micros()/millis() is four limbs,    *)
(* least significant first.  A float is modelled by the exact rational it  *)
(* is meant to hold: a gain is num/den, a time in milliseconds is an       *)
(* integer number of 1/(SAMPLE_RATE*1000) ms.  Single-precision rounding   *)
(* is not modelled; with the sample and gain sets used here every product  *)
(* is below 2^24 quarter units and therefore exact in a float.             *)
(***************************************************************************)
EXTENDS Integers, Sequences, FiniteSets, TLC

\* ------------------------------------------------------------- bounds
\* loop() invocations explored
MaxCycles == 3
\* samples per frame in the model (BUFFER_SAMPLES is 8, 32, 128 or 1024)
FrameSamples == 2
\* gains explored for the transform are n/d, 0 <= n <= MaxGainNum, d in {1,2,4}
MaxGainNum == 7
\* half-width of the sample windows explored for the transform
SampleSpan == 2

\* -------------------------------------------------- program constants
INT16_MAX == 32767
INT16_MIN == -32768
SAMPLE_RATE == 44100
LOG_INTERVAL_MS == 1000
SETUP_DELAY_MS == 300

Sketches == {"latency", "estimate", "monitor", "serial"}
\* the sketches of main.cpp: they amplify and play back
Playback == {"latency", "estimate", "monitor"}
\* the sketches that keep last_log_time and print a latency line
Logging == {"latency", "estimate"}

BUFFER_SAMPLES(sk) ==
  CASE sk = "latency" -> 8
    [] sk = "estimate" -> 32
    [] sk = "monitor" -> 128
    [] OTHER -> 1024

\* DAC_LATENCY_MS as a rational: 0.8f and 1.5f
DAC_LATENCY_MS(sk) ==
  IF sk = "latency" THEN [num |-> 4, den |-> 5] ELSE [num |-> 3, den |-> 2]

\* MIC_GAIN 3.0f
MIC_GAIN == [num |-> 3, den |-> 1]

\* ------------------------------------------- multi-limb unsigned numbers
Base == 2 ^ 16

Zero64 == <<0, 0, 0, 0>>

\* a natural below 2^31 as a 64-bit value
FromNat(n) == <<n % Base, n \div Base, 0, 0>>

\* 64-bit addition, modulo 2^64
AddL(a, b) ==
  LET s1 == a[1] + b[1]
      s2 == a[2] + b[2] + (s1 \div Base)
      s3 == a[3] + b[3] + (s2 \div Base)
      s4 == a[4] + b[4] + (s3 \div Base)
  IN <<s1 % Base, s2 % Base, s3 % Base, s4 % Base>>

\* 64-bit subtraction, modulo 2^64 (\div floors, so a borrow is -1)
SubL(a, b) ==
  LET d1 == a[1] - b[1]
      d2 == a[2] - b[2] + (d1 \div Base)
      d3 == a[3] - b[3] + (d2 \div Base)
      d4 == a[4] - b[4] + (d3 \div Base)
  IN <<d1 % Base, d2 % Base, d3 % Base, d4 % Base>>

\* 64-bit value times a small natural (k < 2^15), modulo 2^64
MulL(a, k) ==
  LET p1 == a[1] * k
      p2 == a[2] * k + (p1 \div Base)
      p3 == a[3] * k + (p2 \div Base)
      p4 == a[4] * k + (p3 \div Base)
  IN <<p1 % Base, p2 % Base, p3 % Base, p4 % Base>>

\* 64-bit value divided by a small natural (k < 2^15), rounded down
DivL(a, k) ==
  LET c4 == a[4]
      c3 == (c4 % k) * Base + a[3]
      c2 == (c3 % k) * Base + a[2]
      c1 == (c2 % k) * Base + a[1]
  IN <<c1 \div k, c2 \div k, c3 \div k, c4 \div k>>

\* a >= b on 64-bit values
GeL(a, b) ==
  \/ a[4] > b[4]
  \/ a[4] = b[4] /\ a[3] > b[3]
  \/ a[4] = b[4] /\ a[3] = b[3] /\ a[2] > b[2]
  \/ a[4] = b[4] /\ a[3] = b[3] /\ a[2] = b[2] /\ a[1] >= b[1]

\* the conversion of the 64-bit timer value to unsigned long / uint32_t
Trunc32(a) == <<a[1], a[2]>>

\* a 32-bit value widened to 64 bits
Widen(u) == <<u[1], u[2], 0, 0>>

\* a subtraction that stops at zero instead of wrapping
Sub32Saturating(a, b) ==
  IF GeL(Widen(a), Widen(b))
  THEN LET d1 == a[1] - b[1]
           d2 == a[2] - b[2] + (d1 \div Base)
       IN <<d1 % Base, d2 % Base>>
  ELSE <<0, 0>>

\* unsigned 32-bit subtraction: t1 - t0, now - last_log_time
Sub32(a, b) ==
  LET d1 == a[1] - b[1]
      d2 == a[2] - b[2] + (d1 \div Base)
  IN <<d1 % Base, d2 % Base>>

\* unsigned 32-bit comparison with a constant: u >= n
Ge32(u, n) == GeL(Widen(u), FromNat(n))

\* durations
Us(n) == FromNat(n)
Ms(n) == MulL(FromNat(n), 1000)

\* -------------------------------------------------------- the transform
\* float s = mic_buffer[i] * MIC_GAIN;  the numerator of s over g.den
Scale(s, g) == s * g.num

\* the upper clip left out
ClipHighMissing(p, d) == p

\* if (s > 32767) s = 32767;
ClipHigh(p, d) == IF p > INT16_MAX * d THEN INT16_MAX * d ELSE p

\* if (s < -32768) s = -32768;
ClipLow(p, d) == IF p < INT16_MIN * d THEN INT16_MIN * d ELSE p

\* a conversion that rounds down instead of toward zero
ToInt16Floor(p, d) == (((p \div d) - INT16_MIN) % Base) + INT16_MIN

\* int16_t v = (int16_t)s;  the conversion discards the fraction (toward
\* zero); a value outside int16_t, which the clipped s never is, is shown
\* reduced modulo 2^16
ToInt16(p, d) ==
  LET q == IF p >= 0 THEN p \div d ELSE -((-p) \div d)
  IN ((q - INT16_MIN) % Base) + INT16_MIN

\* one sample through gain, clip and conversion
Amplify(s, g) == ToInt16(ClipLow(ClipHigh(Scale(s, g), g.den), g.den), g.den)

\* a copy loop that fills the left slots only
FanOutLeftOnly(out, mic, n, g) ==
  [k \in 1..Len(out) |->
     IF (k - 1) \div 2 < n /\ k % 2 = 1
     THEN Amplify(mic[((k - 1) \div 2) + 1], g) ELSE out[k]]

\* the for loop over the samples read: out_buffer[i*2] = out_buffer[i*2+1] = v;
\* slots past 2*n keep what the static buffer held
FanOut(out, mic, n, g) ==
  [k \in 1..Len(out) |->
     IF (k - 1) \div 2 < n THEN Amplify(mic[((k - 1) \div 2) + 1], g) ELSE out[k]]

\* ------------------------------------------------------------ the clock
\* micros(): the low 32 bits of the 64-bit microsecond timer
Micros(c) == Trunc32(c)

\* millis(): the timer divided by 1000, then its low 32 bits
Millis(c) == Trunc32(DivL(c, 1000))

\* -------------------------------------------------- the latency figures
\* a float number of milliseconds is held as its exact value times
\* SAMPLE_RATE * 1000, so that BUFFER_SAMPLES / SAMPLE_RATE * 1000 is whole

\* (t1 - t0) / 1000.0f : microseconds to milliseconds
MsOfUs(u) == MulL(MulL(Widen(u), SAMPLE_RATE \div 100), 100)

\* (float)BUFFER_SAMPLES / SAMPLE_RATE * 1000.0f
FrameMs(sk) == FromNat(BUFFER_SAMPLES(sk) * 1000 * 1000)

\* DAC_LATENCY_MS
DacMs(sk) ==
  FromNat(DAC_LATENCY_MS(sk).num * ((SAMPLE_RATE * 1000) \div DAC_LATENCY_MS(sk).den))

\* an estimate that counts one buffering period instead of two
EstimatedTotalOneFrame(sk, work) == AddL(AddL(FrameMs(sk), DacMs(sk)), work)

\* frame_ms * 2 + DAC_LATENCY_MS + cpu_ms
EstimatedTotal(sk, work) == AddL(AddL(MulL(FrameMs(sk), 2), DacMs(sk)), work)

NoReport == [kind |-> "none"]

\* the values handed to Serial.printf
LatencyLine(sk, a0, a1, a2, a3) ==
  IF sk = "latency"
  THEN [kind |-> "latency",
        rx_wait_ms |-> MsOfUs(Sub32(a1, a0)),
        cpu_ms |-> MsOfUs(Sub32(a2, a1)),
        tx_wait_ms |-> MsOfUs(Sub32(a3, a2)),
        frame_ms |-> FrameMs(sk),
        estimated_total |-> EstimatedTotal(sk, MsOfUs(Sub32(a2, a1)))]
  ELSE [kind |-> "estimate",
        frame_ms |-> FrameMs(sk),
        processing_ms |-> MsOfUs(Sub32(a3, a0)),
        estimated_latency |-> EstimatedTotal(sk, MsOfUs(Sub32(a3, a0)))]

\* a throttle that forgets to subtract last_log_time
ShouldLogSinceBoot(now, last) == Ge32(now, LOG_INTERVAL_MS)

\* if (now - last_log_time >= LOG_INTERVAL_MS)
ShouldLog(now, last) == Ge32(Sub32(now, last), LOG_INTERVAL_MS)

\* ------------------------------------------------------------- the state
VARIABLES
  sketch,         \* which sketch is flashed
  gain,           \* the MIC_GAIN the sketch was built with
  pc,             \* "setup", "halted", or the next step of loop()
  cfgFailed,      \* some i2s configuration call of setup() returned an error
  diag,           \* the stage setup() printed a failure for, or "none"
  cycle,          \* loop() invocations started
  clock,          \* the 64-bit microsecond timer
  mic_buffer, out_buffer,
  bytes_read, samples, bytes_written,
  t0, t1, t2, t3, \* t_start is t0 and t_end is t3 in the estimator
  last_log_time,
  trace,          \* what this loop() invocation has done so far
  requested,      \* the byte count handed to i2s_write / Serial.write
  emitted,        \* the samples handed to i2s_write / Serial.write
  emitLog,        \* the cycles whose frame was handed to the sink, in order
  report,         \* the line printed by this invocation, or NoReport
  stamps,         \* the timer at capture start/end, transform end, emit end
  lastReportMs,   \* the timer, in ms, at the last report (0: boot)
  reportGap       \* the timer ms between the last report and the one before

vars == <<sketch, gain, pc, cfgFailed, diag, cycle, clock, mic_buffer, out_buffer,
          bytes_read, samples, bytes_written, t0, t1, t2, t3, last_log_time,
          trace, requested, emitted, emitLog, report, stamps, lastReportMs,
          reportGap>>

NoStamps == [cs |-> Zero64, ce |-> Zero64, te |-> Zero64, ee |-> Zero64]

\* the statics are zero-initialised; millis() and micros() count from boot
Boot ==
  /\ pc = "setup"
  /\ cfgFailed = FALSE
  /\ diag = "none"
  /\ cycle = 0
  /\ clock = Zero64
  /\ mic_buffer = [i \in 1..FrameSamples |-> 0]
  /\ out_buffer = [i \in 1..(2 * FrameSamples) |-> 0]
  /\ bytes_read = 0
  /\ samples = 0
  /\ bytes_written = 0
  /\ t0 = <<0, 0>> /\ t1 = <<0, 0>> /\ t2 = <<0, 0>> /\ t3 = <<0, 0>>
  /\ last_log_time = <<0, 0>>
  /\ trace = <<>>
  /\ requested = 0
  /\ emitted = <<>>
  /\ emitLog = <<>>
  /\ report = NoReport
  /\ stamps = NoStamps
  /\ lastReportMs = Zero64
  /\ reportGap = Zero64

Init ==
  /\ sketch \in Sketches
  /\ gain = MIC_GAIN
  /\ Boot

\* ----------------------------------------------------------------- setup
\* the configuration calls of setup(), in order
ConfigSteps(sk) ==
  IF sk = "serial"
  THEN {"mic_install", "mic_pin", "mic_clk"}
  ELSE {"mic_install", "mic_pin", "mic_clk", "spk_install", "spk_pin"}

\* the failure setup() prints before while(1): only the serial streamer
\* looks at a return value, and only at those of driver install and set pin
SetupDiag(sk, bad) ==
  IF sk # "serial" THEN "none"
  ELSE IF "mic_install" \in bad THEN "mic_install"
  ELSE IF "mic_pin" \in bad THEN "mic_pin"
  ELSE "none"

\* delay(300) after Serial.begin in the sketches of main.cpp
SetupDelay(sk) == IF sk = "serial" THEN 0 ELSE SETUP_DELAY_MS

Setup ==
  /\ pc = "setup"
  /\ \E bad \in SUBSET ConfigSteps(sketch) :
       /\ cfgFailed' = (bad # {})
       /\ diag' = SetupDiag(sketch, bad)
       /\ pc' = IF SetupDiag(sketch, bad) # "none" THEN "halted" ELSE "read"
  /\ clock' = AddL(clock, Ms(SetupDelay(sketch)))
  /\ UNCHANGED <<sketch, gain, cycle, mic_buffer, out_buffer, bytes_read, samples,
                 bytes_written, t0, t1, t2, t3, last_log_time, trace, requested,
                 emitted, emitLog, report, stamps, lastReportMs, reportGap>>

\* ------------------------------------------------------------------ loop
\* where loop() goes after i2s_read: the streamer returns on an error
AfterRead(sk, err) ==
  IF sk = "serial" THEN (IF err THEN "read" ELSE "write") ELSE "transform"

\* a loop() that returns after the for loop
AfterTransformReturn(sk) == "read"

\* after the for loop comes i2s_write
AfterTransform(sk) == "write"

\* after i2s_write: the logging block, or the end of loop()
AfterWrite(sk) == IF sk \in Logging THEN "log" ELSE "read"

\* what i2s_read can deliver: an error and no bytes, or n samples
ReadOutcomes(frames) ==
  {[err |-> TRUE, data |-> <<>>]} \cup {[err |-> FALSE, data |-> f] : f \in frames}

\* the destination buffer after n samples arrived
Fill(buf, data) ==
  [i \in 1..Len(buf) |-> IF i <= Len(data) THEN data[i] ELSE buf[i]]

\* t0 = micros(); i2s_read(...portMAX_DELAY); t1 = micros();
\* int samples = bytes_read / sizeof(int16_t);
LoopRead(waits, outcomes) ==
  /\ pc = "read"
  /\ cycle < MaxCycles
  /\ \E w \in waits, r \in outcomes :
       /\ clock' = AddL(clock, w)
       /\ stamps' = [NoStamps EXCEPT !.cs = clock, !.ce = AddL(clock, w)]
       /\ t0' = IF sketch \in Logging THEN Micros(clock) ELSE t0
       /\ t1' = IF sketch = "latency" THEN Micros(AddL(clock, w)) ELSE t1
       /\ mic_buffer' = Fill(mic_buffer, r.data)
       /\ bytes_read' = 2 * Len(r.data)
       /\ samples' = IF sketch = "serial" THEN 0 ELSE (2 * Len(r.data)) \div 2
       /\ trace' = IF sketch = "serial" /\ r.err
                   THEN <<"capture", "error_log">> ELSE <<"capture">>
       /\ pc' = AfterRead(sketch, r.err)
  /\ cycle' = cycle + 1
  /\ bytes_written' = 0
  /\ t2' = <<0, 0>>
  /\ t3' = <<0, 0>>
  /\ requested' = 0
  /\ emitted' = <<>>
  /\ report' = NoReport
  /\ UNCHANGED <<sketch, gain, cfgFailed, diag, out_buffer, last_log_time, emitLog,
                 lastReportMs, reportGap>>

\* the gain / clip / stereo copy loop; t2 = micros();
LoopTransform(times) ==
  /\ pc = "transform"
  /\ out_buffer' = FanOut(out_buffer, mic_buffer, samples, gain)
  /\ \E d \in times :
       /\ clock' = AddL(clock, d)
       /\ stamps' = [stamps EXCEPT !.te = AddL(clock, d)]
       /\ t2' = IF sketch = "latency" THEN Micros(AddL(clock, d)) ELSE t2
  /\ trace' = Append(trace, "transform")
  /\ pc' = AfterTransform(sketch)
  /\ UNCHANGED <<sketch, gain, cfgFailed, diag, cycle, mic_buffer, bytes_read,
                 samples, bytes_written, t0, t1, t3, last_log_time, requested,
                 emitted, emitLog, report, lastReportMs, reportGap>>

\* samples * 2 * sizeof(int16_t) for i2s_write; bytes_read for Serial.write
BytesToWrite(sk, n, nbytes) == IF sk = "serial" THEN nbytes ELSE n * 2 * 2

\* the buffer handed to the sink, as samples
FrameToWrite(sk, out, mic, nbytes) ==
  IF sk = "serial" THEN SubSeq(mic, 1, nbytes \div 2) ELSE SubSeq(out, 1, nbytes \div 2)

\* the sink takes everything, or falls one sample short
WriteAccepts(req) == {req} \cup {n \in {req - 2} : n >= 0}

\* i2s_write(...portMAX_DELAY) / Serial.write; t3 = micros();
\* bytes_written is never looked at
LoopWrite(waits) ==
  /\ pc = "write"
  /\ requested' = BytesToWrite(sketch, samples, bytes_read)
  /\ emitted' = FrameToWrite(sketch, out_buffer, mic_buffer,
                             BytesToWrite(sketch, samples, bytes_read))
  /\ emitLog' = Append(emitLog, cycle)
  /\ \E w \in waits, n \in WriteAccepts(BytesToWrite(sketch, samples, bytes_read)) :
       /\ clock' = AddL(clock, w)
       /\ stamps' = [stamps EXCEPT !.ee = AddL(clock, w)]
       /\ t3' = IF sketch \in Logging THEN Micros(AddL(clock, w)) ELSE t3
       /\ bytes_written' = n
  /\ trace' = Append(trace, "emit")
  /\ pc' = AfterWrite(sketch)
  /\ UNCHANGED <<sketch, gain, cfgFailed, diag, cycle, mic_buffer, out_buffer,
                 bytes_read, samples, t0, t1, t2, last_log_time, report,
                 lastReportMs, reportGap>>

\* unsigned long now = millis(); if (...) { last_log_time = now; ...printf }
LoopLog ==
  /\ pc = "log"
  /\ IF ShouldLog(Millis(clock), last_log_time)
     THEN /\ last_log_time' = Millis(clock)
          /\ report' = LatencyLine(sketch, t0, t1, t2, t3)
          /\ trace' = Append(trace, "report")
          /\ lastReportMs' = DivL(clock, 1000)
          /\ reportGap' = SubL(DivL(clock, 1000), lastReportMs)
     ELSE UNCHANGED <<last_log_time, report, trace, lastReportMs, reportGap>>
  /\ pc' = "read"
  /\ UNCHANGED <<sketch, gain, cfgFailed, diag, cycle, clock, mic_buffer, out_buffer,
                 bytes_read, samples, bytes_written, t0, t1, t2, t3, requested,
                 emitted, emitLog, stamps>>

\* ------------------------------------------------------------- the inputs
\* the sample values fed to the microphone
Tones == <<-20000, 7, 20000>>

\* frames of n samples: the tones, starting at each of them in turn
TonesFrom(n) == {[i \in 1..n |-> Tones[((i + k) % Len(Tones)) + 1]] : k \in 1..Len(Tones)}

\* a read delivers a full frame, comes one sample short, or delivers nothing
InputFrames == TonesFrom(FrameSamples) \cup TonesFrom(FrameSamples - 1) \cup {<<>>}

ReadWaits == {Us(181), Ms(600), Ms(1000)}
TransformTimes == {Us(10)}
WriteWaits == {Us(181)}

Next ==
  \/ Setup
  \/ LoopRead(ReadWaits, ReadOutcomes(InputFrames))
  \/ LoopTransform(TransformTimes)
  \/ LoopWrite(WriteWaits)
  \/ LoopLog

Spec == Init /\ [][Next]_vars

\* --------------------------------------------- the transform on its own
\* the gains n/d explored
Gains == {[num |-> n, den |-> d] : n \in 0..MaxGainNum, d \in {1, 2, 4}}

\* the samples explored: windows around the ends of the range, the zero and
\* the points where a gain of 3 starts to clip
SampleCentres == {INT16_MIN, -21846, -10923, 0, 10922, 20000, INT16_MAX}

TSamples ==
  {s \in INT16_MIN..INT16_MAX : \E c \in SampleCentres : s - c \in (-SampleSpan)..SampleSpan}

\* loop() of a playback sketch built with some gain, after its first
\* i2s_read delivered one sample
InitT ==
  /\ sketch \in Playback
  /\ gain \in Gains
  /\ pc = "transform"
  /\ cfgFailed = FALSE
  /\ diag = "none"
  /\ cycle = 1
  /\ clock = AddL(Ms(SETUP_DELAY_MS), Us(181))
  /\ \E s \in TSamples : mic_buffer = [i \in 1..FrameSamples |-> IF i = 1 THEN s ELSE 0]
  /\ out_buffer = [i \in 1..(2 * FrameSamples) |-> 0]
  /\ bytes_read = 2
  /\ samples = 1
  /\ bytes_written = 0
  /\ t0 = (IF sketch \in Logging THEN Micros(Ms(SETUP_DELAY_MS)) ELSE <<0, 0>>)
  /\ t1 = (IF sketch = "latency" THEN Micros(AddL(Ms(SETUP_DELAY_MS), Us(181))) ELSE <<0, 0>>)
  /\ t2 = <<0, 0>> /\ t3 = <<0, 0>>
  /\ last_log_time = <<0, 0>>
  /\ trace = <<"capture">>
  /\ requested = 0
  /\ emitted = <<>>
  /\ emitLog = <<>>
  /\ report = NoReport
  /\ stamps = [NoStamps EXCEPT !.cs = Ms(SETUP_DELAY_MS),
                               !.ce = AddL(Ms(SETUP_DELAY_MS), Us(181))]
  /\ lastReportMs = Zero64
  /\ reportGap = Zero64

NextT == LoopTransform(TransformTimes)

SpecT == InitT /\ [][NextT]_vars

\* ------------------------------------------------- the clocks near a wrap
\* 2^32 as a 64-bit value
Wrap32 == <<0, 0, 1, 0>>

\* a microphone stalled for n microseconds less than one turn of micros()
UsStall(n) == SubL(Wrap32, Us(n))

\* a microphone stalled for n milliseconds less than one turn of millis()
MsStall(n) == MulL(SubL(Wrap32, FromNat(n)), 1000)

\* i2s_read waits with portMAX_DELAY: ordinary waits, and stalls that carry
\* micros() to 5 and 15 microseconds before its wrap, past its wrap, and
\* millis() to 600 ms before its wrap
ReadStalls ==
  {Ms(600), Ms(1000), UsStall(300005), UsStall(300015), UsStall(200000), MsStall(900)}

\* the sketches that read the clocks, booted
InitClock ==
  /\ sketch \in Logging
  /\ gain = MIC_GAIN
  /\ Boot

NextClock ==
  \/ Setup
  \/ LoopRead(ReadStalls, ReadOutcomes({[i \in 1..FrameSamples |-> 7]}))
  \/ LoopTransform(TransformTimes)
  \/ LoopWrite(WriteWaits)
  \/ LoopLog

SpecClock == InitClock /\ [][NextClock]_vars

\* ================================================================ claims
\* what the program is said to do, stated without the definitions above

Did(step) == \E i \in 1..Len(trace) : trace[i] = step

\* the samples the last i2s_read delivered
Captured == bytes_read \div 2

\* limit to the int16_t range
Clamp(x) == IF x > INT16_MAX THEN INT16_MAX ELSE IF x < INT16_MIN THEN INT16_MIN ELSE x

\* p/d rounded to the nearest integer, halves away from zero
RoundNearest(p, d) ==
  IF p >= 0 THEN (2 * p + d) \div (2 * d) ELSE -((2 * (-p) + d) \div (2 * d))

\* p/d with its fraction dropped: the floor, plus one below zero when inexact
TowardZero(p, d) ==
  LET f == p \div d IN IF p < 0 /\ f * d # p THEN f + 1 ELSE f

\* v is s times g, held inside the int16_t range without wrapping
Saturated(s, g, v) ==
  /\ INT16_MIN <= v /\ v <= INT16_MAX
  /\ (s * g.num >= INT16_MAX * g.den => v = INT16_MAX)
  /\ (s * g.num <= INT16_MIN * g.den => v = INT16_MIN)
  /\ (s * g.num >= 0 => v >= 0)
  /\ (s * g.num <= 0 => v <= 0)

\* C1: every value the transform stores in the output frame, and so every
\* sample handed to the sink by a playback sketch, lies in [-32768, 32767]
\* and is clamped, never wrapped: at or beyond a limit it is that limit and
\* it keeps the sign of sample times gain.  This for the gain the sketch
\* runs with and, for the samples captured, for every gain explored.
C1_Saturation ==
  /\ \A k \in 1..Len(out_buffer) : INT16_MIN <= out_buffer[k] /\ out_buffer[k] <= INT16_MAX
  /\ \A k \in 1..Len(emitted) : INT16_MIN <= emitted[k] /\ emitted[k] <= INT16_MAX
  /\ Did("transform") =>
       \A i \in 1..Captured :
         /\ Saturated(mic_buffer[i], gain, out_buffer[2 * i - 1])
         /\ Saturated(mic_buffer[i], gain, out_buffer[2 * i])
         /\ \A g \in Gains : Saturated(mic_buffer[i], g, Amplify(mic_buffer[i], g))

\* the spec's scenario: gain 3.0, sample 20000, stored and handed over as 32767
C1_Witness ==
  /\ Did("emit")
  /\ \E i \in 1..Captured :
       mic_buffer[i] = 20000 /\ out_buffer[2 * i] = INT16_MAX /\ emitted[2 * i] = INT16_MAX

C3_StereoFanOut ==
  (sketch \in Playback /\ Did("transform")) =>
    /\ \A i \in 1..Captured :
         /\ out_buffer[2 * i - 1] = Clamp(TowardZero(mic_buffer[i] * gain.num, gain.den))
         /\ out_buffer[2 * i] = out_buffer[2 * i - 1]
    /\ Did("emit") =>
         emitted = [k \in 1..(2 * Captured) |->
                      Clamp(TowardZero(mic_buffer[((k - 1) \div 2) + 1] * gain.num, gain.den))]

\* a full frame of different samples went through and was handed over
C3_Witness ==
  /\ sketch \in Playback
  /\ Did("emit")
  /\ Captured = FrameSamples
  /\ mic_buffer[1] # mic_buffer[2]
  /\ emitted[1] = emitted[2] /\ emitted[3] = emitted[4] /\ emitted[1] # emitted[3]

\* C4 as stated: a capture that returns a count other than the frame size
\* (zero included) skips the cycle: no transform, no emit, no latency report
C4_ShortReadSkipsCycle ==
  (Did("capture") /\ Captured # FrameSamples) =>
    ~(Did("transform") \/ Did("emit") \/ Did("report"))

\* C7 as stated: a failed configuration step of setup() prints a line naming
\* the stage and halts for good; no cycle ever runs
C7_ConfigFailureHalts ==
  cfgFailed => (pc = "halted" /\ diag # "none" /\ cycle = 0)

\* C9 as stated: a sink that accepts fewer bytes than requested is noticed
\* and logged in that cycle
C9_PartialWriteLogged ==
  (pc = "read" /\ Did("emit") /\ bytes_written # requested) => Did("error_log")

\* the 64-bit timer in milliseconds
ClockMs == DivL(clock, 1000)

\* C5: a latency line is printed in a cycle only when LOG_INTERVAL_MS or
\* more have passed since the last one (since boot for the first), and
\* printing it sets last_log_time to now; a cycle that prints none leaves
\* last_log_time alone.  So two consecutive lines are at least
\* LOG_INTERVAL_MS apart and the times of the lines never go back.
C5_Throttle ==
  /\ [](Did("report") => /\ report # NoReport
                         /\ GeL(reportGap, FromNat(LOG_INTERVAL_MS))
                         /\ last_log_time = Trunc32(lastReportMs)
                         /\ lastReportMs = ClockMs)
  /\ [](~Did("report") => report = NoReport)
  /\ [][/\ last_log_time' # last_log_time =>
             (Did("report")' /\ ~Did("report") /\ last_log_time' = Trunc32(ClockMs'))
        /\ GeL(lastReportMs', lastReportMs)]_vars

\* a second line, the one before it printed by an earlier cycle
C5_Witness ==
  /\ Did("report")
  /\ cycle >= 2
  /\ reportGap # lastReportMs
  /\ GeL(reportGap, FromNat(LOG_INTERVAL_MS))

\* microseconds of the 64-bit timer as milliseconds, in the unit of the report
UnitsOfUs(d) == MulL(MulL(d, 100), SAMPLE_RATE \div 100)

\* frameSizeSamples / sampleRateHz x 1000, in the unit of the report
NominalFrame(sk) == FromNat(BUFFER_SAMPLES(sk) * (((SAMPLE_RATE * 1000) \div SAMPLE_RATE) * 1000))

\* fixedDownstreamLatencyMs, in the unit of the report
FixedDownstream(sk) ==
  FromNat((DAC_LATENCY_MS(sk).num * SAMPLE_RATE * 1000) \div DAC_LATENCY_MS(sk).den)

\* 2 x nominal frame + fixed downstream latency + work
Estimate(sk, work) ==
  AddL(AddL(AddL(NominalFrame(sk), NominalFrame(sk)), FixedDownstream(sk)), work)

TotalOf(r) == IF r.kind = "latency" THEN r.estimated_total ELSE r.estimated_latency

\* C6 as stated: in every report the estimated total is 2 x nominal frame +
\* fixed downstream latency + the time spent in the transform alone
\* (transform end - capture end)
C6_TransformOnly ==
  report # NoReport =>
    TotalOf(report) = Estimate(sketch, UnitsOfUs(SubL(stamps.te, stamps.ce)))

\* C6 as amended: that holds of the reports of the latency analyser, whose
\* three waits are the differences of the four timestamps; the estimator's
\* report adds the whole cycle instead, emit end - capture start
C6_Estimate ==
  /\ report.kind = "latency" =>
       /\ report.estimated_total = Estimate(sketch, UnitsOfUs(SubL(stamps.te, stamps.ce)))
       /\ report.rx_wait_ms = UnitsOfUs(SubL(stamps.ce, stamps.cs))
       /\ report.cpu_ms = UnitsOfUs(SubL(stamps.te, stamps.ce))
       /\ report.tx_wait_ms = UnitsOfUs(SubL(stamps.ee, stamps.te))
       /\ report.frame_ms = NominalFrame(sketch)
  /\ report.kind = "estimate" =>
       /\ report.estimated_latency = Estimate(sketch, UnitsOfUs(SubL(stamps.ee, stamps.cs)))
       /\ report.processing_ms = UnitsOfUs(SubL(stamps.ee, stamps.cs))
       /\ report.frame_ms = NominalFrame(sketch)

\* the spec's scenario: frame 8 at 44100 Hz, 0.8 ms downstream, 0.01 ms of
\* transform: 1.1728 ms, which is 51721000 / (44100 * 1000)
C6_Witness ==
  /\ Did("report")
  /\ report.kind = "latency"
  /\ SubL(stamps.te, stamps.ce) = Us(10)
  /\ report.estimated_total = FromNat(51721000)

\* the steps of one cycle, in their order
Rank(step) ==
  CASE step = "capture" -> 1
    [] step = "transform" -> 2
    [] step = "error_log" -> 2
    [] step = "emit" -> 3
    [] OTHER -> 4

\* the cycle's frame has been handed to the sink, or given up on an error
CycleOver == trace = <<>> \/ trace[Len(trace)] \in {"emit", "report", "error_log"}

\* C8: within a cycle capture comes first, then the transform, then the
\* emit; a capture starts only when the previous cycle's frame has been
\* emitted or abandoned; every captured frame is emitted at most once and
\* in capture order
C8_Sequential ==
  /\ [](/\ \A i \in 1..(Len(trace) - 1) : Rank(trace[i]) < Rank(trace[i + 1])
        /\ (trace # <<>> => trace[1] = "capture")
        /\ (Did("emit") /\ sketch \in Playback => Did("transform"))
        /\ \A i \in 1..(Len(emitLog) - 1) : emitLog[i] < emitLog[i + 1]
        /\ \A i \in 1..Len(emitLog) : emitLog[i] <= cycle)
  /\ [][cycle' # cycle => (cycle' = cycle + 1 /\ CycleOver)]_vars

\* the second frame emitted after the first
C8_Witness ==
  /\ cycle = 2
  /\ Did("emit")
  /\ emitLog = <<1, 2>>

\* a difference of the 64-bit timer that fits 32 bits
Within32(d) == d[3] = 0 /\ d[4] = 0

\* C10: unsigned 32-bit arithmetic keeps the throttle and the stage times
\* right across a wrap.  A line is never printed before LOG_INTERVAL_MS of
\* the 64-bit timer have passed since the last one; and once a cycle has
\* reached its log decision less than one turn of millis() (2^32 ms) after
\* the last line, a line was printed exactly if LOG_INTERVAL_MS or more
\* have passed, millis() having wrapped in between or not, so the lines do
\* not stop.  Every reported stage time equals the 64-bit timer's
\* difference whenever that difference is below one turn of micros().
C10_WrapSafe ==
  /\ (sketch \in Logging /\ pc = "read" /\ trace # <<>>) =>
       IF Did("report")
       THEN GeL(reportGap, FromNat(LOG_INTERVAL_MS)) /\ lastReportMs = ClockMs
       ELSE Within32(SubL(ClockMs, lastReportMs)) =>
              ~GeL(SubL(ClockMs, lastReportMs), FromNat(LOG_INTERVAL_MS))
  /\ report.kind = "latency" =>
       /\ Within32(SubL(stamps.ce, stamps.cs)) =>
            report.rx_wait_ms = UnitsOfUs(SubL(stamps.ce, stamps.cs))
       /\ Within32(SubL(stamps.te, stamps.ce)) =>
            report.cpu_ms = UnitsOfUs(SubL(stamps.te, stamps.ce))
       /\ Within32(SubL(stamps.ee, stamps.te)) =>
            report.tx_wait_ms = UnitsOfUs(SubL(stamps.ee, stamps.te))
  /\ report.kind = "estimate" =>
       (Within32(SubL(stamps.ee, stamps.cs)) =>
          report.processing_ms = UnitsOfUs(SubL(stamps.ee, stamps.cs)))

\* a line printed after millis() wrapped, the line before it printed before
\* the wrap, and micros() wrapped during this cycle's capture
C10_Witness ==
  /\ Did("report")
  /\ lastReportMs[3] = 1
  /\ SubL(lastReportMs, reportGap)[3] = 0
  /\ SubL(lastReportMs, reportGap) # Zero64
  /\ ~GeL(Widen(Micros(stamps.ce)), Widen(Micros(stamps.cs)))
  /\ Within32(SubL(stamps.ce, stamps.cs))

====
